---- MODULE Spec2Model ----
(***************************************************************************)
(* Model of sig-bitmap (src/src/lib.rs): reading a signal bitmap from      *)
(* /proc/<pid>/status, interpreting it as a list of signal names, and      *)
(* displaying it as a wrapped block of text.                               *)
(*                                                                         *)
(* Text is a sequence of one-character strings.  A u64 is a tuple of 16    *)
(* nibbles, most significant first (TLC integers are 32 bits wide).        *)
(***************************************************************************)
EXTENDS Integers, Sequences, FiniteSets

VARIABLES
  pc,        \* position in sig_bitmap / the resolver test
  args,      \* SigBitmapArgs: [pid, map]
  status,    \* the contents of /proc/<pid>/status, or NoFile
  line_no,   \* proc_bitmap: the next line of the file to read
  bit_map,   \* sig_bitmap: the value proc_bitmap returned
  sig_idx,   \* interpret: the loop counter
  sig_vec,   \* interpret: the names collected so far
  stdout,    \* the blocks printed, each a sequence of lines
  idx,       \* the resolver's argument (resolver specification)
  abbrev     \* the resolver's result (resolver specification)

vars == <<pc, args, status, line_no, bit_map, sig_idx, sig_vec, stdout, idx, abbrev>>

-----------------------------------------------------------------------------
(* Constants of lib.rs *)

MAX_WIDTH == 80

SUB_WIDTH == 45

\* NR_SIGS, were the loop of interpret to reach index 64
NR_SIGS_inclusive == 64 + 1

NR_SIGS == 64

SIGRTMIN_STR == <<"R","T","M","I","N">>

\* SIGRTMAX_STR, were it a copy of SIGRTMIN_STR
SIGRTMAX_STR_copied == <<"R","T","M","I","N">>

SIGRTMAX_STR == <<"R","T","M","A","X">>

SIGRTMIN_IDX == 34

SIGRTMAX_IDX == 64

SIG_TAB ==
  <<
    <<"H","U","P">>, <<"I","N","T">>, <<"Q","U","I","T">>,
    <<"I","L","L">>, <<"T","R","A","P">>, <<"A","B","R","T">>,
    <<"B","U","S">>, <<"F","P","E">>, <<"K","I","L","L">>,
    <<"U","S","R","1">>, <<"S","E","G","V">>, <<"U","S","R","2">>,
    <<"P","I","P","E">>, <<"A","L","R","M">>, <<"T","E","R","M">>,
    <<"S","T","K","F","L","T">>, <<"C","H","L","D">>, <<"C","O","N","T">>,
    <<"S","T","O","P">>, <<"T","S","T","P">>, <<"T","T","I","N">>,
    <<"T","T","O","U">>, <<"U","R","G">>, <<"X","C","P","U">>,
    <<"X","F","S","Z">>, <<"V","T","A","L","R","M">>, <<"P","R","O","F">>,
    <<"W","I","N","C","H">>, <<"P","O","L","L">>, <<"I","O">>,
    <<"P","W","R">>, <<"S","Y","S">>
  >>

\* POSIX_RANGE, were it to start at index 0
POSIX_RANGE_from_zero == [start |-> 0, end |-> 32]

\* std::ops::Range<u8>: half-open, start <= x < end
POSIX_RANGE == [start |-> 1, end |-> 32]

RTMIN_RANGE == [start |-> 32, end |-> 50]

RTMAX_RANGE == [start |-> 50, end |-> 65]

contains(range, x) == range.start <= x /\ x < range.end

BitmapType == {"SigPnd", "ShdPnd", "SigBlk", "SigIgn", "SigCgt"}

\* impl fmt::Display for BitmapType
BitmapTypeDisplay(typ) ==
  CASE typ = "SigPnd" -> <<"S","i","g","P","n","d",":">>
    [] typ = "ShdPnd" -> <<"S","h","d","P","n","d",":">>
    [] typ = "SigBlk" -> <<"S","i","g","B","l","k",":">>
    [] typ = "SigIgn" -> <<"S","i","g","I","g","n",":">>
    [] typ = "SigCgt" -> <<"S","i","g","C","g","t",":">>

-----------------------------------------------------------------------------
(* Integer formatting, as format! does it *)

DecDigits == <<"0","1","2","3","4","5","6","7","8","9">>

HexDigits == <<"0","1","2","3","4","5","6","7","8","9","a","b","c","d","e","f">>

HexDigitsUpper == <<"0","1","2","3","4","5","6","7","8","9","A","B","C","D","E","F">>

\* {} of an unsigned integer
RECURSIVE DisplayUnsigned(_)
DisplayUnsigned(n) ==
  IF n < 10 THEN <<DecDigits[n + 1]>>
  ELSE DisplayUnsigned(n \div 10) \o <<DecDigits[(n % 10) + 1]>>

\* {} of a signed integer: the sign is written only when negative
DisplaySignedPlain(n) ==
  IF n < 0 THEN <<"-">> \o DisplayUnsigned(0 - n) ELSE DisplayUnsigned(n)

\* {:+} of a signed integer: the sign is always written
DisplaySigned(n) ==
  IF n < 0 THEN <<"-">> \o DisplayUnsigned(0 - n)
  ELSE <<"+">> \o DisplayUnsigned(n)

\* {:<w}: left-aligned, padded with spaces to at least w columns
PadLeftAligned(s, w) ==
  IF Len(s) >= w THEN s ELSE s \o [i \in 1..(w - Len(s)) |-> " "]

\* {:016x} of a u64
LowerHex16(map) == [i \in 1..16 |-> HexDigits[map[i] + 1]]

\* u8 as i8
AsI8(x) == IF x >= 128 THEN x - 256 ELSE x

-----------------------------------------------------------------------------
(* The resolver.  A result is Ok(name) or a panic. *)

Ok(v) == [ok |-> TRUE, val |-> v]

Panic(why) == [ok |-> FALSE, val |-> why]

fmt_range(i, off, tmpl) ==
  LET diff == AsI8(i) - AsI8(off) IN
  IF diff < -128 \/ diff > 127 THEN Panic("attempt to subtract with overflow")
  ELSE IF diff = 0 THEN Ok(tmpl)
  ELSE Ok(tmpl \o DisplaySigned(diff))

\* the table lookup, were the index not brought back to base 0
tab_lookup_unadjusted(i) ==
  IF i >= 0 /\ i < Len(SIG_TAB)
  THEN Ok(SIG_TAB[i + 1])
  ELSE Panic("index out of bounds")

\* SIG_TAB[(*idx as usize) - 1]: the subtraction and the indexing are checked
tab_lookup(i) ==
  IF i - 1 >= 0 /\ i - 1 < Len(SIG_TAB)
  THEN Ok(SIG_TAB[(i - 1) + 1])
  ELSE Panic("index out of bounds")

sigabbrev_np(i) ==
  IF contains(POSIX_RANGE, i)
  THEN tab_lookup(i)
  ELSE IF contains(RTMIN_RANGE, i)
  THEN fmt_range(i, SIGRTMIN_IDX, SIGRTMIN_STR)
  ELSE IF contains(RTMAX_RANGE, i)
  THEN fmt_range(i, SIGRTMAX_IDX, SIGRTMAX_STR)
  ELSE Ok(<<"I","N","V","L">>)

-----------------------------------------------------------------------------
(* u64 arithmetic on 16 nibbles, most significant first *)

Zero == [i \in 1..16 |-> 0]

\* bit k (0 = least significant) of a u64
Bit(map, k) == (map[16 - (k \div 4)] \div (2 ^ (k % 4))) % 2

\* the bit test, were the shift by sig_idx
BitTestUnshifted(map, i) == Bit(map, i) /= 0

\* (map & (0x1_u64 << (sig_idx - 1))) != 0
BitTest(map, i) == Bit(map, i - 1) /= 0

\* char::to_digit(16): the digit's value, or -1 for None
to_digit(c) ==
  IF \E d \in 1..16 : HexDigits[d] = c
  THEN (CHOOSE d \in 1..16 : HexDigits[d] = c) - 1
  ELSE IF \E d \in 1..16 : HexDigitsUpper[d] = c
  THEN (CHOOSE d \in 1..16 : HexDigitsUpper[d] = c) - 1
  ELSE -1

\* the digit loop of u64::from_str_radix: result = result * 16 + digit, checked
RECURSIVE ParseDigits(_, _)
ParseDigits(digits, result) ==
  IF Len(digits) = 0 THEN Ok(result)
  ELSE LET d == to_digit(Head(digits)) IN
       IF d < 0 THEN Panic("InvalidDigit")
       ELSE IF result[1] /= 0 THEN Panic("PosOverflow")
       ELSE ParseDigits(Tail(digits), Tail(result) \o <<d>>)

\* u64::from_str_radix(src, 16); Panic(kind) stands for Err(kind) here
from_str_radix(src) ==
  IF Len(src) = 0 THEN Panic("Empty")
  ELSE IF src = <<"+">> \/ src = <<"-">> THEN Panic("InvalidDigit")
  ELSE IF Head(src) = "+" THEN ParseDigits(Tail(src), Zero)
  ELSE ParseDigits(src, Zero)

-----------------------------------------------------------------------------
(* str helpers used by proc_bitmap *)

starts_with(line, pfx) ==
  Len(line) >= Len(pfx) /\ SubSeq(line, 1, Len(pfx)) = pfx

\* str::trim_start_matches: the prefix is removed as often as it occurs
RECURSIVE trim_start_matches(_, _)
trim_start_matches(line, pfx) ==
  IF Len(pfx) > 0 /\ starts_with(line, pfx)
  THEN trim_start_matches(SubSeq(line, Len(pfx) + 1, Len(line)), pfx)
  ELSE line

WhiteSpace == {" ", "\t", "\r", "\n"}

RECURSIVE trim_start(_)
trim_start(s) ==
  IF Len(s) > 0 /\ Head(s) \in WhiteSpace THEN trim_start(Tail(s)) ELSE s

RECURSIVE trim_end(_)
trim_end(s) ==
  IF Len(s) > 0 /\ s[Len(s)] \in WhiteSpace
  THEN trim_end(SubSeq(s, 1, Len(s) - 1)) ELSE s

trim(s) == trim_end(trim_start(s))

\* the body of the loop of proc_bitmap for one line that starts with lpfx:
\* from_str_radix(line.trim_start_matches(&lpfx).trim(), 16)
ParseLine(line, lpfx) == from_str_radix(trim(trim_start_matches(line, lpfx)))

-----------------------------------------------------------------------------
(* The formatter: format! and textwrap::fill *)

\* Vec<String>::join(", ")
RECURSIVE join(_)
join(lst) ==
  IF Len(lst) = 0 THEN <<>>
  ELSE IF Len(lst) = 1 THEN lst[1]
  ELSE lst[1] \o <<",", " ">> \o join(Tail(lst))

\* match sig_lst.is_empty() { true => "NONE", false => sig_lst.join(", ") }
lst_fmt(sig_lst) ==
  IF Len(sig_lst) = 0 THEN <<"N","O","N","E">> ELSE join(sig_lst)

\* format!("PID: {:<6} {} {:<2} [0x{:016x}]: {}", pid, map, len, bit_map, lst_fmt)
FormatLine(a, map, sig_lst) ==
  <<"P","I","D",":"," ">> \o PadLeftAligned(DisplayUnsigned(a.pid), 6)
    \o <<" ">> \o BitmapTypeDisplay(a.map)
    \o <<" ">> \o PadLeftAligned(DisplayUnsigned(Len(sig_lst)), 2)
    \o <<" ","[","0","x">> \o LowerHex16(map) \o <<"]",":"," ">>
    \o lst_fmt(sig_lst)

\* the length of the longest prefix of s made of spaces (sp) or of non-spaces
RECURSIVE Run(_, _)
Run(s, sp) ==
  IF Len(s) > 0 /\ ((Head(s) = " ") = sp) THEN 1 + Run(Tail(s), sp) ELSE 0

\* textwrap's words: a run of non-spaces and the run of spaces that follows it
RECURSIVE split_words(_)
split_words(text) ==
  IF Len(text) = 0 THEN <<>>
  ELSE LET w  == Run(text, FALSE)
           ws == Run(SubSeq(text, w + 1, Len(text)), TRUE)
       IN <<[word |-> SubSeq(text, 1, w),
             whitespace |-> SubSeq(text, w + 1, w + ws)]>>
          \o split_words(SubSeq(text, w + ws + 1, Len(text)))

\* the available width of line n: width minus the indent of that line
line_width(n) == IF n = 1 THEN MAX_WIDTH ELSE MAX_WIDTH - SUB_WIDTH

\* textwrap's first-fit wrapping, words never broken (break_words(false));
\* textwrap is an external crate, and which of its wrapping algorithms the
\* build selects decides only where lines break, never their indent:
\* lines is the list of finished lines, cur the words of the line being filled,
\* width their width with the whitespace after each
RECURSIVE wrap_first_fit(_, _, _, _)
wrap_first_fit(words, lines, cur, width) ==
  IF Len(words) = 0 THEN Append(lines, cur)
  ELSE LET w == Head(words)
           adv == Len(w.word) + Len(w.whitespace)
       IN IF width + Len(w.word) > line_width(Len(lines) + 1) /\ Len(cur) > 0
          THEN wrap_first_fit(Tail(words), Append(lines, cur), <<w>>, adv)
          ELSE wrap_first_fit(Tail(words), lines, Append(cur, w), width + adv)

\* the text of one wrapped line: its words with the whitespace between them,
\* the whitespace after the last word dropped
RECURSIVE line_text(_)
line_text(ws) ==
  IF Len(ws) = 0 THEN <<>>
  ELSE IF Len(ws) = 1 THEN ws[1].word
  ELSE ws[1].word \o ws[1].whitespace \o line_text(Tail(ws))

\* " ".repeat(SUB_WIDTH)
sub_fmt == [i \in 1..SUB_WIDTH |-> " "]

\* textwrap::fill(text, Options::new(MAX_WIDTH).subsequent_indent(sub_fmt)...):
\* the wrapped lines, every line after the first behind the indent
fill(text) ==
  LET ls == wrap_first_fit(split_words(text), <<>>, <<>>, 0) IN
  [n \in 1..Len(ls) |->
     IF n = 1 THEN line_text(ls[n]) ELSE sub_fmt \o line_text(ls[n])]

-----------------------------------------------------------------------------
(* The inputs: process ids, and what /proc/<pid>/status may hold *)

\* the largest number of unrelated lines ahead of the bitmap lines
MaxJunk == 1

\* pid: u32 (values above 2^31 - 1 are beyond TLC's integers)
Pids == {1, 42, 999999, 1000000, 4194304}

\* the u64 with exactly the bits of S set
FromBits(S) ==
  [i \in 1..16 |->
     (IF 4 * (16 - i) \in S THEN 1 ELSE 0) + (IF 4 * (16 - i) + 1 \in S THEN 2 ELSE 0)
     + (IF 4 * (16 - i) + 2 \in S THEN 4 ELSE 0) + (IF 4 * (16 - i) + 3 \in S THEN 8 ELSE 0)]

\* 0x0000000badc0ffee, the bitmap of tests::test_interpret
Badc0ffee == <<0,0,0,0,0,0,0,11,10,13,12,0,15,15,14,14>>

\* 0x000000000000dead, the bitmap of the doc example of interpret
Dead == <<0,0,0,0,0,0,0,0,0,0,0,0,13,14,10,13>>

Bitmaps ==
  {Zero, Badc0ffee, Dead, FromBits(0..63), FromBits({63}), FromBits(0..62),
   FromBits({0, 31, 32, 62, 63}), FromBits({k \in 0..63 : k % 2 = 0}),
   FromBits({k \in 0..63 : k % 2 = 1})}
  \cup {FromBits({k}) : k \in 0..63}

\* File::open: Err(_), or Ok(file) with the lines the file holds
NoFile == [ok |-> FALSE, lines |-> <<>>]

File(ls) == [ok |-> TRUE, lines |-> ls]

\* an item of BufReader::lines(): Ok(line) or Err(_)
IoErr == Panic("InvalidData")

JunkLine == Ok(<<"N","a","m","e",":","\t","c","a","t">>)

Junk(n) == [i \in 1..n |-> JunkLine]

\* a line "<label>\t<text>"
DataLine(typ, text) == Ok(BitmapTypeDisplay(typ) \o <<"\t">> \o text)

\* the five bitmap lines in the kernel's order, each with the same text
DataLines(text) ==
  <<DataLine("SigPnd", text), DataLine("ShdPnd", text), DataLine("SigBlk", text),
    DataLine("SigIgn", text), DataLine("SigCgt", text)>>

\* the texts no u64 parses from
Malformed ==
  {<<>>, <<"z","z">>, <<"0","x","f","f">>, <<"-","1">>, <<"+">>,
   <<"1">> \o LowerHex16(Zero)}

\* texts that parse, but are not what the kernel writes
Unusual == {<<"+","f","f">>, <<"B","A","D","C","0","F","F","E","E">>, <<"1"," "," ">>}

StatusFiles ==
  {NoFile}
  \cup {File(Junk(n)) : n \in 0..MaxJunk}
  \cup {File(Junk(n) \o DataLines(LowerHex16(v))) : n \in 0..MaxJunk, v \in Bitmaps}
  \cup {File(Junk(n) \o DataLines(t)) : n \in 0..MaxJunk, t \in Malformed \cup Unusual}
  \cup {File(<<IoErr>> \o DataLines(LowerHex16(Dead))),
        File(<<IoErr>> \o Junk(1)),
        File(DataLines(LowerHex16(Dead)) \o DataLines(LowerHex16(Badc0ffee))),
        File(DataLines(<<"z","z">>) \o DataLines(LowerHex16(Dead))),
        File(<<DataLine("SigPnd", LowerHex16(Zero)), DataLine("ShdPnd", LowerHex16(Dead)),
               DataLine("SigBlk", LowerHex16(Badc0ffee)),
               DataLine("SigIgn", LowerHex16(FromBits(0..63))),
               DataLine("SigCgt", LowerHex16(FromBits({63})))>>),
        File(<<Ok(<<"S","i","g","P","n","d",":","S","i","g","P","n","d",":","\t","f","f">>)>>)}

-----------------------------------------------------------------------------
(* sig_bitmap, step by step *)

NoResult == Panic("not called")

Init ==
  /\ pc = "proc_bitmap"
  /\ args \in [pid : Pids, map : BitmapType]
  /\ status \in StatusFiles
  /\ line_no = 1
  /\ bit_map = Zero
  /\ sig_idx = 1
  /\ sig_vec = <<>>
  /\ stdout = <<>>
  /\ idx = 0
  /\ abbrev = NoResult

\* proc_bitmap: File::open fails, the function returns 0x0
OpenFails ==
  /\ pc = "proc_bitmap"
  /\ ~status.ok
  /\ bit_map' = Zero
  /\ pc' = "interpret"
  /\ UNCHANGED <<args, status, line_no, sig_idx, sig_vec, stdout, idx, abbrev>>

\* proc_bitmap: File::open succeeds
OpenSucceeds ==
  /\ pc = "proc_bitmap"
  /\ status.ok
  /\ pc' = "lines"
  /\ UNCHANGED <<args, status, line_no, bit_map, sig_idx, sig_vec, stdout, idx, abbrev>>

\* what one item of fbuff.lines() does to the loop, were Err items unwrapped
\* instead of flattened away
LineOutcomeUnwrapped(item, lpfx) ==
  IF ~item.ok THEN Panic("unwrap of a line")
  ELSE IF starts_with(item.val, lpfx) THEN ParseLine(item.val, lpfx)
  ELSE Ok("next")

\* what one item of fbuff.lines().flatten() does to the loop: Ok("next") to go
\* on with the next line, Ok(value) to return the value, or the panic of
\* .unwrap() on the Err of from_str_radix
LineOutcome(item, lpfx) ==
  IF item.ok /\ starts_with(item.val, lpfx) THEN ParseLine(item.val, lpfx)
  ELSE Ok("next")

\* proc_bitmap: one iteration of `for line in fbuff.lines().flatten()`
ReadLine ==
  /\ pc = "lines"
  /\ line_no <= Len(status.lines)
  /\ LET res == LineOutcome(status.lines[line_no], BitmapTypeDisplay(args.map)) IN
     IF ~res.ok
     THEN /\ pc' = "panicked"
          /\ UNCHANGED <<bit_map, line_no>>
     ELSE IF res.val = "next"
     THEN /\ line_no' = line_no + 1
          /\ UNCHANGED <<pc, bit_map>>
     ELSE /\ bit_map' = res.val
          /\ pc' = "interpret"
          /\ UNCHANGED line_no
  /\ UNCHANGED <<args, status, sig_idx, sig_vec, stdout, idx, abbrev>>

\* proc_bitmap: the lines are exhausted, the function returns 0x0
EndOfFile ==
  /\ pc = "lines"
  /\ line_no > Len(status.lines)
  /\ bit_map' = Zero
  /\ pc' = "interpret"
  /\ UNCHANGED <<args, status, line_no, sig_idx, sig_vec, stdout, idx, abbrev>>

\* interpret: one iteration of `while sig_idx < NR_SIGS`
InterpretStep ==
  /\ pc = "interpret"
  /\ sig_idx < NR_SIGS
  /\ IF BitTest(bit_map, sig_idx)
     THEN LET name == sigabbrev_np(sig_idx) IN
          IF name.ok
          THEN /\ sig_vec' = Append(sig_vec, name.val)
               /\ sig_idx' = sig_idx + 1
               /\ UNCHANGED pc
          ELSE /\ pc' = "panicked"
               /\ UNCHANGED <<sig_vec, sig_idx>>
     ELSE /\ sig_idx' = sig_idx + 1
          /\ UNCHANGED <<pc, sig_vec>>
  /\ UNCHANGED <<args, status, line_no, bit_map, stdout, idx, abbrev>>

\* interpret: the loop ends, sig_vec is returned
InterpretReturns ==
  /\ pc = "interpret"
  /\ sig_idx >= NR_SIGS
  /\ pc' = "format"
  /\ UNCHANGED <<args, status, line_no, bit_map, sig_idx, sig_vec, stdout, idx, abbrev>>

\* sig_bitmap, were nothing printed for a bitmap of zero
DisplayUnlessZero ==
  /\ pc = "format"
  /\ stdout' = IF bit_map = Zero THEN stdout
               ELSE Append(stdout, fill(FormatLine(args, bit_map, sig_vec)))
  /\ pc' = "done"
  /\ UNCHANGED <<args, status, line_no, bit_map, sig_idx, sig_vec, idx, abbrev>>

\* sig_bitmap: format, fill and println
Display ==
  /\ pc = "format"
  /\ stdout' = Append(stdout, fill(FormatLine(args, bit_map, sig_vec)))
  /\ pc' = "done"
  /\ UNCHANGED <<args, status, line_no, bit_map, sig_idx, sig_vec, idx, abbrev>>

Next ==
  \/ OpenFails
  \/ OpenSucceeds
  \/ ReadLine
  \/ EndOfFile
  \/ InterpretStep
  \/ InterpretReturns
  \/ Display

Spec == Init /\ [][Next]_vars

-----------------------------------------------------------------------------
(* The resolver on its own, for every u8 *)

ResolverInit ==
  /\ pc = "sigabbrev_np"
  /\ idx \in 0..255
  /\ abbrev = NoResult
  /\ args = [pid |-> 1, map |-> "SigPnd"]
  /\ status = NoFile
  /\ line_no = 1
  /\ bit_map = Zero
  /\ sig_idx = 1
  /\ sig_vec = <<>>
  /\ stdout = <<>>

CallResolver ==
  /\ pc = "sigabbrev_np"
  /\ abbrev' = sigabbrev_np(idx)
  /\ pc' = "resolved"
  /\ UNCHANGED <<args, status, line_no, bit_map, sig_idx, sig_vec, stdout, idx>>

ResolverNext == CallResolver

ResolverSpec == ResolverInit /\ [][ResolverNext]_vars

-----------------------------------------------------------------------------
(* Properties *)

\* interpret has returned its list
Interpreted == pc \in {"format", "done"}

\* the set bits among bits 0..62 of a bitmap
SetBits(map) == {k \in 0..62 : Bit(map, k) = 1}

\* the resolver's names of the indices 1..n whose bit is set, in ascending order
RECURSIVE NamesUpTo(_, _)
NamesUpTo(map, n) ==
  IF n = 0 THEN <<>>
  ELSE NamesUpTo(map, n - 1)
       \o (IF Bit(map, n - 1) = 1 THEN <<sigabbrev_np(n).val>> ELSE <<>>)

BadcoffeeNames ==
  <<
    <<"I","N","T">>, <<"Q","U","I","T">>, <<"I","L","L">>,
    <<"A","B","R","T">>, <<"B","U","S">>, <<"F","P","E">>,
    <<"K","I","L","L">>, <<"U","S","R","1">>, <<"S","E","G","V">>,
    <<"U","S","R","2">>, <<"P","I","P","E">>, <<"A","L","R","M">>,
    <<"T","E","R","M">>, <<"S","T","K","F","L","T">>, <<"U","R","G">>,
    <<"X","C","P","U">>, <<"X","F","S","Z">>, <<"P","R","O","F">>,
    <<"W","I","N","C","H">>, <<"I","O">>, <<"R","T","M","I","N","-","2">>,
    <<"R","T","M","I","N","-","1">>, <<"R","T","M","I","N">>, <<"R","T","M","I","N","+","2">>
  >>

DeadNames ==
  <<
    <<"H","U","P">>, <<"Q","U","I","T">>, <<"I","L","L">>,
    <<"A","B","R","T">>, <<"F","P","E">>, <<"U","S","R","1">>,
    <<"S","E","G","V">>, <<"U","S","R","2">>, <<"P","I","P","E">>,
    <<"T","E","R","M">>, <<"S","T","K","F","L","T">>
  >>

\* C1: the list interpret returns holds exactly the resolver's names of the
\* indices N in 1..63 whose bit N-1 is set, one per set bit, in ascending order
\* of N; 0xbadc0ffee and 0xdead give the lists of the test and the doc example.
C1_InterpretNames ==
  Interpreted =>
    /\ sig_vec = NamesUpTo(bit_map, 63)
    /\ bit_map = Badc0ffee => sig_vec = BadcoffeeNames
    /\ bit_map = Dead => sig_vec = DeadNames

C1_Witness ==
  pc = "done" /\ bit_map = Badc0ffee /\ Len(sig_vec) = 24 /\ sig_vec[21] = <<"R","T","M","I","N","-","2">>

\* the words of the first line of the block printed
FirstLineWords == split_words(stdout[1][1])

\* the count the block shows: the fourth word, after "PID:", the pid and the label
ShownCount == FirstLineWords[4].word

\* C2: the number of names interpret returns, which is the count sig_bitmap
\* shows, is the number of set bits among bits 0..62; bit 63 does not count.
C2_CountIsPopcount ==
  /\ Interpreted => Len(sig_vec) = Cardinality(SetBits(bit_map))
  /\ pc = "done" => ShownCount = DisplayUnsigned(Cardinality(SetBits(bit_map)))

C2_Witness ==
  pc = "done" /\ Bit(bit_map, 63) = 1 /\ Len(sig_vec) = 63 /\ ShownCount = <<"6","3">>

\* C3: for an index in 1..31 the resolver returns the entry of the 32-entry
\* table at position index-1: 1 gives HUP, 9 gives KILL, 31 gives PWR.
C3_PosixTable ==
  (pc = "resolved" /\ idx \in 1..31) =>
    /\ Len(SIG_TAB) = 32
    /\ abbrev = Ok(SIG_TAB[idx])
    /\ idx = 1 => abbrev.val = <<"H","U","P">>
    /\ idx = 9 => abbrev.val = <<"K","I","L","L">>
    /\ idx = 31 => abbrev.val = <<"P","W","R">>

C3_Witness == pc = "resolved" /\ idx = 31 /\ abbrev = Ok(<<"P","W","R">>)

\* a base name and an offset written with its sign, the bare name for offset 0
\* (offsets here stay within -19..19)
SignedName(base, off) ==
  LET mag == IF off < 0 THEN 0 - off ELSE off
      digits == IF mag < 10 THEN <<DecDigits[mag + 1]>>
                ELSE <<"1", DecDigits[mag - 10 + 1]>>
  IN IF off = 0 THEN base
     ELSE base \o <<IF off < 0 THEN "-" ELSE "+">> \o digits

\* C4: for an index in 32..49 the resolver returns RTMIN with the signed offset
\* index-34, for an index in 50..64 RTMAX with the signed offset index-64, and
\* the bare base name when the offset is zero.
C4_RealTimeNames ==
  pc = "resolved" =>
    /\ idx \in 32..49 => abbrev = Ok(SignedName(<<"R","T","M","I","N">>, idx - 34))
    /\ idx \in 50..64 => abbrev = Ok(SignedName(<<"R","T","M","A","X">>, idx - 64))
    /\ idx = 34 => abbrev.val = <<"R","T","M","I","N">>
    /\ idx = 36 => abbrev.val = <<"R","T","M","I","N","+","2">>
    /\ idx = 64 => abbrev.val = <<"R","T","M","A","X">>
    /\ idx = 62 => abbrev.val = <<"R","T","M","A","X","-","2">>

C4_Witness == pc = "resolved" /\ idx = 36 /\ abbrev = Ok(<<"R","T","M","I","N","+","2">>)

\* the ranges that contain an index
RangesOf(i) == {r \in {POSIX_RANGE, RTMIN_RANGE, RTMAX_RANGE} : contains(r, i)}

\* C5: for every u8 the resolver returns a name, without panic or overflow;
\* the name is INVL exactly when the index is 0 or above 64; the three ranges
\* partition 1..64.
C5_ResolverTotal ==
  /\ idx \in 0..255
  /\ Cardinality(RangesOf(idx)) = IF idx \in 1..64 THEN 1 ELSE 0
  /\ pc = "resolved" =>
       /\ abbrev.ok
       /\ abbrev.val = <<"I","N","V","L">> <=> (idx = 0 \/ idx > 64)

C5_Witness == pc = "resolved" /\ idx = 0 /\ abbrev = Ok(<<"I","N","V","L">>)

\* some line of the file begins with the label of the category asked for
LabelFound ==
  \E n \in 1..Len(status.lines) :
    /\ status.lines[n].ok
    /\ starts_with(status.lines[n].val, BitmapTypeDisplay(args.map))

\* proc_bitmap has returned
BitmapRead == pc \in {"interpret", "format", "done"}

\* C6: when the status file cannot be opened, or opens with no line that
\* begins with the label, proc_bitmap returns 0 and nothing panics.
C6_NoDataIsZero ==
  (~status.ok \/ ~LabelFound) =>
    /\ pc /= "panicked"
    /\ BitmapRead => bit_map = Zero
    /\ pc = "done" => FirstLineWords[5].word = <<"[","0","x">> \o LowerHex16(Zero) \o <<"]",":">>

C6_Witness ==
  /\ pc = "done" /\ status.ok /\ ~LabelFound /\ bit_map = Zero
  /\ \E n \in 1..Len(status.lines) : ~status.lines[n].ok

\* the first line that begins with the label holds no base-16 u64
MalformedLine ==
  /\ LabelFound
  /\ LET n == CHOOSE m \in 1..Len(status.lines) :
                /\ status.lines[m].ok
                /\ starts_with(status.lines[m].val, BitmapTypeDisplay(args.map))
                /\ \A k \in 1..(m - 1) :
                     ~(status.lines[k].ok
                       /\ starts_with(status.lines[k].val, BitmapTypeDisplay(args.map)))
     IN ~ParseLine(status.lines[n].val, BitmapTypeDisplay(args.map)).ok

\* C7: a line that begins with the label but holds no base-16 u64 does not
\* abort the program: the line is skipped and scanning goes on.
C7_MalformedLineSkipped ==
  MalformedLine => pc /= "panicked"

\* the block shows NONE in place of the name list
ShowsNone ==
  /\ Len(stdout[1]) = 1
  /\ Len(FirstLineWords) = 6
  /\ FirstLineWords[6].word = <<"N","O","N","E">>

\* C8: whatever bitmap value proc_bitmap returned, the value 0 of a process
\* that does not exist included, sig_bitmap prints exactly one block, none
\* before it is done and the loop of interpret bounded on the way; the block
\* shows NONE exactly when the list is empty, and then the count 0.
C8_AlwaysOneBlock ==
  /\ Len(stdout) = IF pc = "done" THEN 1 ELSE 0
  /\ BitmapRead => sig_idx <= NR_SIGS
  /\ pc = "done" =>
       /\ ShowsNone <=> sig_vec = <<>>
       /\ ShowsNone => ShownCount = <<"0">>

C8_Witness ==
  pc = "done" /\ ~status.ok /\ bit_map = Zero /\ Len(stdout) = 1 /\ ShowsNone

\* the column (from 0) at which the name list starts on the first line: past
\* the "]: " that ends the header
NameColumn ==
  LET l == stdout[1][1] IN (CHOOSE i \in 1..Len(l) : l[i] = "]") + 2

\* C9: the name list of the first line starts at column 45, where every
\* continuation line starts after its indent.
C9_NamesAligned ==
  pc = "done" =>
    /\ NameColumn = SUB_WIDTH
    /\ \A n \in 2..Len(stdout[1]) : Run(stdout[1][n], TRUE) = SUB_WIDTH

\* C10: the list interpret returns holds no name twice.
C10_NoDuplicateNames ==
  BitmapRead =>
    \A i, j \in 1..Len(sig_vec) : i /= j => sig_vec[i] /= sig_vec[j]

C10_Witness ==
  pc = "done" /\ bit_map = FromBits(0..63) /\ Len(sig_vec) = 63

====
